---------------------------- MODULE Spec2Model ----------------------------
(***************************************************************************)
(* A model of the pairs-trading engine of src/simple_pairs_trading.py.     *)
(*                                                                         *)
(* Numbers.  A p-value or a significance level is an integer count of      *)
(* 1/PDen, so PDen stands for 1.0.  A Benjamini-Hochberg corrected p-value *)
(* is the rational [num, den], standing for num / (den * PDen); rationals  *)
(* are compared by cross-multiplication, never rounded.  A rolling z-score *)
(* is kept as its sign and its square, the exact rational n2/d2, so that   *)
(* the comparisons with the thresholds 1 and 0.5 are exact.  A price       *)
(* return, a position, a cost, a point of a cumulative-return curve and a  *)
(* regression parameter is the fraction [num, den] in lowest terms, so the *)
(* rounding of floats is left out.                                         *)
(***************************************************************************)
EXTENDS Integers, Sequences, FiniteSets, TLC

VARIABLES
    pc,             \* position of the running function
    exc,            \* the exception that ended the run, "none" while there is none
    n,              \* data.shape[1]: the number of instruments of the panel
    coint_fails,    \* the pairs of columns on which coint(S1, S2) raises
    significance,   \* the caller's significance level
    pvalue_matrix,  \* find_cointegrated_pairs: pvalue_matrix
    pvalues,        \* find_cointegrated_pairs: pvalues
    indices,        \* find_cointegrated_pairs: indices
    corrected_pvalues, \* find_cointegrated_pairs: corrected_pvalues
    pairs,          \* find_cointegrated_pairs: pairs
    i, j, k,        \* find_cointegrated_pairs: the loop variables
    spread,         \* generate_signals: spread
    window,         \* generate_signals: window
    z_score,        \* generate_signals: z_score
    signals,        \* generate_signals, backtest: signals
    S1, S2,         \* backtest: the prices of the two legs
    hedge_ratio,    \* backtest: hedge_ratio
    transaction_cost, \* backtest: transaction_cost
    stop_loss,      \* backtest: stop_loss
    index,          \* backtest: signals.index
    price_index,    \* backtest: the index of S1 and S2
    positions,      \* backtest: positions, a column per leg
    S1_ret, S2_ret, \* backtest: the returns of the two legs
    trades,         \* backtest: trades, a column per leg
    transaction_costs, \* backtest: transaction_costs
    portfolio_returns, \* backtest: portfolio_returns
    cumulative_returns, \* backtest: cumulative_returns
    drawdown,       \* backtest: drawdown
    stop_idx,       \* backtest: <<stop_idx>>, <<>> while it is unbound
    final_return,   \* backtest: final_return
    params,         \* calculate_spread: model.params
    calls,          \* the calls of calculate_spread made so far
    results,        \* __main__: results
    best_pair,      \* __main__: best_pair, <<>> while it is unbound
    pair,           \* __main__: the place in pairs of the pair of line 169
    p_value,        \* check_stationarity: p_value, in hundredths
    hl,             \* __main__: hl
    split           \* __main__: split

screenVars == <<n, coint_fails, significance, pvalue_matrix, pvalues,
                indices, corrected_pvalues, pairs, i, j, k>>
signalVars == <<spread, window, z_score, signals>>
backtestVars == <<S1, S2, hedge_ratio, transaction_cost, stop_loss, index,
                  price_index, positions, S1_ret, S2_ret, trades, transaction_costs,
                  portfolio_returns, cumulative_returns, drawdown, stop_idx,
                  final_return>>
spreadVars == <<params, calls>>
mainVars == <<results, best_pair, pair, p_value, hl, split>>
vars == <<pc, exc, screenVars, signalVars, backtestVars, spreadVars,
         mainVars>>

-----------------------------------------------------------------------------
(* Bounds of the model *)

MaxN == 3       \* instruments in a panel: 0 .. MaxN
PDen == 3       \* p-values and significance levels are multiples of 1/PDen
MaxLen == 6     \* observations in a spread: 0 .. MaxLen
MaxVal == 2     \* a spread observation is one of 0 .. MaxVal
MaxWin == 4     \* rolling window: 1 .. MaxWin
MaxT == 3       \* periods of a backtest: 1 .. MaxT
MaxPrice == 2   \* a price is one of 1 .. MaxPrice
MaxHedge == 1   \* a hedge ratio of a backtest is one of 1 .. MaxHedge
CostDen == 2    \* the cost rate of a backtest is 0 or 1/CostDen
MaxOffset == 2  \* an integer index starts at one of 0 .. MaxOffset
MaxObs == 3     \* rows of the two series given to calculate_spread: 0 .. MaxObs
MaxLevel == 1   \* a value of these series is NaN or one of 0 .. MaxLevel
MaxCalls == 2   \* calls of calculate_spread on the same two series
MaxResults == 3 \* backtested pairs in results: 0 .. MaxResults
MaxHalfLife == 2 \* the half-life of a backtested pair: 1 .. MaxHalfLife
MaxReturn == 2  \* the final return of a backtested pair: 1 .. MaxReturn
MaxPairs == 1   \* pairs the screening hands to the loop of line 169: 0 .. MaxPairs
MaxDays == 5    \* rows of the panel of that loop
MaxQuote == 2   \* a price of that panel is one of 1 .. MaxQuote

-----------------------------------------------------------------------------
(* Rationals num / (den * PDen), den > 0 *)

Rat(num, den) == [num |-> num, den |-> den]
RatLess(a, b) == a.num * b.den < b.num * a.den
RatLeq(a, b) == a.num * b.den <= b.num * a.den
RatMin2(a, b) == IF RatLeq(a, b) THEN a ELSE b
RatOne == Rat(PDen, 1)
RatOfP(p) == Rat(p, 1)

-----------------------------------------------------------------------------
(* Exact arithmetic for prices, returns and money: the float q is the      *)
(* fraction [num, den] in lowest terms, den > 0; float NaN is QNaN, which  *)
(* every operation hands on and with which every comparison is False       *)

Abs(x) == IF x < 0 THEN -x ELSE x
RECURSIVE Gcd(_, _)
Gcd(a, b) == IF b = 0 THEN Abs(a) ELSE Gcd(b, a % b)
Lcm(a, b) == (a \div Gcd(a, b)) * b

Quot(num, den) ==
    LET g == Gcd(Abs(num), Abs(den))
        s == IF den < 0 THEN -1 ELSE 1
    IN  [num |-> s * (num \div g), den |-> s * (den \div g)]
QInt(x) == [num |-> x, den |-> 1]
QNaN == [num |-> 0, den |-> 0]
QAdd(a, b) ==
    IF a = QNaN \/ b = QNaN THEN QNaN
    ELSE LET l == Lcm(a.den, b.den)
         IN  Quot(a.num * (l \div a.den) + b.num * (l \div b.den), l)
QNeg(a) == [num |-> -a.num, den |-> a.den]
QSub(a, b) == QAdd(a, QNeg(b))
QMul(a, b) ==
    IF a = QNaN \/ b = QNaN THEN QNaN
    ELSE LET g1 == Gcd(a.num, b.den)
             g2 == Gcd(b.num, a.den)
         IN  Quot((a.num \div g1) * (b.num \div g2),
                  (a.den \div g2) * (b.den \div g1))
\* a / b for b # 0
QDiv(a, b) == IF b = QNaN THEN QNaN ELSE QMul(a, Quot(b.den, b.num))
QAbs(a) == [num |-> Abs(a.num), den |-> a.den]
QLess(a, b) ==
    /\ a # QNaN
    /\ b # QNaN
    /\ LET l == Lcm(a.den, b.den)
       IN  a.num * (l \div a.den) < b.num * (l \div b.den)
QMax2(a, b) == IF QLess(a, b) THEN b ELSE a

-----------------------------------------------------------------------------
(* statsmodels.stats.multitest.multipletests(pvalues, alpha, method='fdr_bh') *)

\* a numpy array: the elements of f, each computed once
Array(f) == SubSeq(f, 1, Len(f))

\* np.argsort: the place of pvals[x] in the ascending order
SortRank(pvals, x) ==
    1 + Cardinality({l \in DOMAIN pvals :
                        pvals[l] < pvals[x] \/ (pvals[l] = pvals[x] /\ l < x)})

\* sortind = np.argsort(pvals)
SortInd(pvals) ==
    [r \in DOMAIN pvals |-> CHOOSE x \in DOMAIN pvals : SortRank(pvals, x) = r]

\* pvals = np.take(pvals, sortind)
Take(pvals, sortind) == [r \in DOMAIN sortind |-> pvals[sortind[r]]]

\* a slip: pvals_sorted * ecdffactor in place of pvals_sorted / ecdffactor
PvalsCorrectedRawTimesEcdf(sorted) ==
    [r \in DOMAIN sorted |-> Rat(sorted[r] * r, Len(sorted))]

\* ecdffactor = _ecdf(pvals_sorted): ecdffactor[r] = r / ntests, and
\* pvals_corrected_raw = pvals_sorted / ecdffactor
PvalsCorrectedRaw(sorted) ==
    [r \in DOMAIN sorted |-> Rat(sorted[r] * Len(sorted), r)]

\* the minimum of raw[r], ..., raw[ntests]
RECURSIVE MinimumFrom(_, _)
MinimumFrom(raw, r) ==
    IF r >= Len(raw) THEN raw[r]
    ELSE RatMin2(raw[r], MinimumFrom(raw, r + 1))

\* pvals_corrected = np.minimum.accumulate(pvals_corrected_raw[::-1])[::-1]
MinimumAccumulate(raw) == [r \in DOMAIN raw |-> MinimumFrom(raw, r)]

\* pvals_corrected[pvals_corrected > 1] = 1
ClipOne(q) == IF RatLess(RatOne, q) THEN RatOne ELSE q

\* pvals_corrected_[sortind] = pvals_corrected: back to the caller's order
Unsort(sortind, corrected) ==
    [x \in DOMAIN sortind |-> corrected[CHOOSE r \in DOMAIN sortind : sortind[r] = x]]

\* fdrcorrection(pvals, alpha, method='indep', is_sorted=True) and the way back
FdrBh(pvals) ==
    LET sortind == Array(SortInd(pvals))
        sorted == Array(Take(pvals, sortind))
        raw == Array(PvalsCorrectedRaw(sorted))
        accumulated == Array(MinimumAccumulate(raw))
        clipped == Array([r \in DOMAIN accumulated |-> ClipOne(accumulated[r])])
    IN  Array(Unsort(sortind, clipped))

\* The call of line 60.  ntests = len(pvals); 1./ntests is evaluated before the
\* method is looked at, so an empty list of p-values raises ZeroDivisionError.
Multipletests(pvals) ==
    IF Len(pvals) = 0
    THEN [raised |-> TRUE, corrected |-> <<>>]
    ELSE [raised |-> FALSE, corrected |-> FdrBh(pvals)]

-----------------------------------------------------------------------------
(* find_cointegrated_pairs(data, significance) *)

Columns(m) == 1 .. m
\* the pairs (a, b), a < b, of the columns of a panel of m instruments
PairsOf(m) == {<<a, b>> \in Columns(m) \X Columns(m) : a < b}

\* coint(S1, S2) raises on some data: MissingDataError for a NaN in the
\* regressor, ValueError for a constant residual or too short a history
CointRaises(a, b) == <<a, b>> \in coint_fails

\* coint(S1, S2)[1] of two NaN-free series: a MacKinnon p-value in [0, 1]
CointPvalues == 0 .. PDen

\* a slip: pvalue_matrix[j, i]
SlotTransposed(a, b) == <<b, a>>
\* line 55: pvalue_matrix[i, j], the entry of the pair (i, j)
Slot(a, b) == <<a, b>>

\* a slip: the inner loop as range(i+1, n-1), which never reaches the last column
LoopHasPairShort == i < n /\ j < n

\* for i in range(n): for j in range(i+1, n): is there a pair left to test
LoopHasPair == i < n /\ j <= n
\* the loop variables after the body of the inner loop
NextI == IF j < n THEN i ELSE i + 1
NextJ == IF j < n THEN j + 1 ELSE i + 2

\* the panels and significance levels a run starts from
ScreenInputs ==
    /\ n \in 0 .. MaxN
    /\ coint_fails \in SUBSET PairsOf(n)
    /\ significance \in 0 .. PDen + 1

\* lines 41-46
ScreenStart ==
    /\ pvalue_matrix = [pr \in Columns(n) \X Columns(n) |-> PDen]
    /\ pvalues = <<>>
    /\ indices = <<>>
    /\ corrected_pvalues = <<>>
    /\ pairs = <<>>
    /\ i = 1
    /\ j = 2
    /\ k = 1

SignalsIdle ==
    /\ spread = <<>>
    /\ window = 1
    /\ z_score = <<>>
    /\ signals = <<>>

\* nothing computed yet
BacktestStart ==
    /\ positions = [S1 |-> <<>>, S2 |-> <<>>]
    /\ S1_ret = <<>>
    /\ S2_ret = <<>>
    /\ trades = [S1 |-> <<>>, S2 |-> <<>>]
    /\ transaction_costs = <<>>
    /\ portfolio_returns = <<>>
    /\ cumulative_returns = <<>>
    /\ drawdown = <<>>
    /\ stop_idx = <<>>
    /\ final_return = QInt(0)

BacktestIdle ==
    /\ S1 = <<>>
    /\ S2 = <<>>
    /\ hedge_ratio = QInt(0)
    /\ transaction_cost = QInt(0)
    /\ stop_loss = QInt(0)
    /\ index = [kind |-> "int", start |-> 0]
    /\ price_index = index
    /\ BacktestStart

SpreadIdle ==
    /\ params = <<>>
    /\ calls = 0

\* the loop of line 169 not entered
LoopIdle ==
    /\ pair = 1
    /\ p_value = 0
    /\ hl = 0
    /\ split = 0

MainIdle ==
    /\ results = <<>>
    /\ best_pair = <<>>
    /\ LoopIdle

InitScreen ==
    /\ pc = "collect"
    /\ exc = "none"
    /\ ScreenInputs
    /\ ScreenStart
    /\ SignalsIdle
    /\ BacktestIdle
    /\ SpreadIdle
    /\ MainIdle

\* lines 51-57: one pass of the inner loop body
TestPair ==
    /\ pc = "collect"
    /\ LoopHasPair
    /\ \/ /\ CointRaises(i, j)
          /\ pc' = "raised"
          /\ exc' = "CointError"
          /\ UNCHANGED <<pvalue_matrix, pvalues, indices, i, j>>
       \/ /\ ~CointRaises(i, j)
          /\ \E pvalue \in CointPvalues :
                /\ pvalue_matrix' = [pvalue_matrix EXCEPT ![Slot(i, j)] = pvalue]
                /\ pvalues' = Append(pvalues, pvalue)
          /\ indices' = Append(indices, <<i, j>>)
          /\ i' = NextI
          /\ j' = NextJ
          /\ UNCHANGED <<pc, exc>>
    /\ UNCHANGED <<n, coint_fails, significance, corrected_pvalues, pairs, k>>
    /\ UNCHANGED signalVars
    /\ UNCHANGED backtestVars
    /\ UNCHANGED spreadVars
    /\ UNCHANGED mainVars

\* line 60, once the loops are over
Correct ==
    /\ pc = "collect"
    /\ ~LoopHasPair
    /\ LET result == Multipletests(pvalues)
       IN  \/ /\ result.raised
              /\ pc' = "raised"
              /\ exc' = "ZeroDivisionError"
              /\ UNCHANGED corrected_pvalues
           \/ /\ ~result.raised
              /\ corrected_pvalues' = result.corrected
              /\ pc' = "extract"
              /\ UNCHANGED exc
    /\ UNCHANGED <<n, coint_fails, significance, pvalue_matrix, pvalues,
                   indices, pairs, i, j, k>>
    /\ UNCHANGED signalVars
    /\ UNCHANGED backtestVars
    /\ UNCHANGED spreadVars
    /\ UNCHANGED mainVars

\* a slip: corrected_pvalues[k] <= significance
SignificantOrEqual(q) == RatLeq(q, RatOfP(significance))

\* line 64
Significant(q) == RatLess(q, RatOfP(significance))

\* lines 63-66: one pass of the extraction loop
ExtractPair ==
    /\ pc = "extract"
    /\ k <= Len(corrected_pvalues)
    /\ pairs' = IF Significant(corrected_pvalues[k])
                THEN Append(pairs, indices[k])
                ELSE pairs
    /\ k' = k + 1
    /\ UNCHANGED <<pc, exc, n, coint_fails, significance, pvalue_matrix,
                   pvalues, indices, corrected_pvalues, i, j>>
    /\ UNCHANGED signalVars
    /\ UNCHANGED backtestVars
    /\ UNCHANGED spreadVars
    /\ UNCHANGED mainVars

\* line 68
ReturnPairs ==
    /\ pc = "extract"
    /\ k > Len(corrected_pvalues)
    /\ pc' = "returned"
    /\ UNCHANGED <<exc, screenVars, signalVars>>
    /\ UNCHANGED backtestVars
    /\ UNCHANGED spreadVars
    /\ UNCHANGED mainVars

NextScreen == TestPair \/ Correct \/ ExtractPair \/ ReturnPairs

SpecScreen == InitScreen /\ [][NextScreen]_vars

-----------------------------------------------------------------------------
(* generate_signals(spread, window) *)

\* float NaN in a series of signals (the signals themselves are -1, 0, 1)
NaN == 99

\* A z-score: NaN, or sgn * sqrt(n2 / d2) with d2 > 0
ZNaN == [nan |-> TRUE, sgn |-> 0, n2 |-> 0, d2 |-> 1]
ZValue(sgn, n2, d2) == [nan |-> FALSE, sgn |-> sgn, n2 |-> n2, d2 |-> d2]
Sign(x) == IF x > 0 THEN 1 ELSE IF x < 0 THEN -1 ELSE 0
\* the z-score tenths / 10
ZOfTenths(tenths) == ZValue(Sign(tenths), tenths * tenths, 100)

\* z > tenths / 10 and z < tenths / 10; every comparison with NaN is False
ZGreater(z, tenths) ==
    /\ ~z.nan
    /\ IF tenths >= 0
       THEN z.sgn = 1 /\ z.n2 * 100 > tenths * tenths * z.d2
       ELSE z.sgn >= 0 \/ z.n2 * 100 < tenths * tenths * z.d2
ZLess(z, tenths) ==
    /\ ~z.nan
    /\ IF tenths <= 0
       THEN z.sgn = -1 /\ z.n2 * 100 > tenths * tenths * z.d2
       ELSE z.sgn <= 0 \/ z.n2 * 100 < tenths * tenths * z.d2

RECURSIVE SumSeq(_)
SumSeq(xs) == IF xs = <<>> THEN 0 ELSE Head(xs) + SumSeq(Tail(xs))
Squares(xs) == [t \in DOMAIN xs |-> xs[t] * xs[t]]

\* the observations a rolling window of w ending at t holds
RollingWindow(xs, w, t) == SubSeq(xs, t - w + 1, t)
\* rolling(window=w): min_periods is w, so no value before the w-th observation
RollingDefined(w, t) == t >= w

\* lines 106-108: z_score[t] = (spread[t] - rolling_mean[t]) / rolling_std[t].
\* With S and Q the sum and the sum of squares of the window,
\* rolling_mean = S / w, rolling_std^2 = (w Q - S^2) / (w (w - 1)) (ddof = 1:
\* NaN for w = 1), and a zero rolling_std gives 0 / 0 = NaN.
ZScoreAt(xs, w, t) ==
    IF ~RollingDefined(w, t) \/ w = 1 THEN ZNaN
    ELSE LET win == RollingWindow(xs, w, t)
             S == SumSeq(win)
             Q == SumSeq(Squares(win))
             dev == w * xs[t] - S
             V == w * Q - S * S
         IN  IF V = 0 THEN ZNaN
             ELSE ZValue(Sign(dev), dev * dev * (w - 1), w * V)

ZScore(xs, w) == Array([t \in DOMAIN xs |-> ZScoreAt(xs, w, t)])

\* a slip: z_score >= 1
SellMaskInclusive(z) ==
    [t \in DOMAIN z |-> ~z[t].nan /\ z[t].sgn = 1 /\ z[t].n2 >= z[t].d2]

\* line 110: z_score > 1
SellMask(z) == [t \in DOMAIN z |-> ZGreater(z[t], 10)]
\* line 111: z_score < -1
BuyMask(z) == [t \in DOMAIN z |-> ZLess(z[t], -10)]
\* a slip: (z_score > -0.5) | (z_score < 0.5)
ExitMaskOr(z) == [t \in DOMAIN z |-> ZGreater(z[t], -5) \/ ZLess(z[t], 5)]

\* line 112: (z_score > -0.5) & (z_score < 0.5)
ExitMask(z) == [t \in DOMAIN z |-> ZGreater(z[t], -5) /\ ZLess(z[t], 5)]

\* signals[mask] = value
Assign(sig, mask, value) ==
    [t \in DOMAIN sig |-> IF mask[t] THEN value ELSE sig[t]]

\* a slip: the forward fill left out
FfillNone(sig) == sig

\* fillna(method='ffill'): a NaN takes the last value before it that is not NaN
RECURSIVE FfillUpTo(_, _)
FfillUpTo(sig, t) ==
    IF t = 0 THEN <<>>
    ELSE LET before == FfillUpTo(sig, t - 1)
         IN  Append(before,
                    IF sig[t] # NaN \/ t = 1 THEN sig[t] ELSE before[t - 1])
Ffill(sig) == FfillUpTo(sig, Len(sig))

\* a slip: fillna(method='bfill') before fillna(0): a leading NaN takes the
\* first value after it that is not NaN
FillnaBackfill(sig) ==
    [t \in DOMAIN sig |->
        IF sig[t] # NaN THEN sig[t]
        ELSE IF \E u \in DOMAIN sig : u > t /\ sig[u] # NaN
             THEN sig[CHOOSE u \in DOMAIN sig :
                        /\ u > t
                        /\ sig[u] # NaN
                        /\ \A v \in DOMAIN sig : (v > t /\ sig[v] # NaN) => u <= v]
             ELSE 0]

\* a slip: fillna(0) left out
FillnaNone(sig) == sig

\* fillna(0)
Fillna0(sig) == [t \in DOMAIN sig |-> IF sig[t] = NaN THEN 0 ELSE sig[t]]

\* lines 109-113
SignalRules(z) ==
    LET empty == [t \in DOMAIN z |-> NaN]
        sell == Array(Assign(empty, SellMask(z), -1))
        buy == Array(Assign(sell, BuyMask(z), 1))
        exit == Array(Assign(buy, ExitMask(z), 0))
    IN  Array(Fillna0(Ffill(exit)))

ScreenIdle ==
    /\ n = 0
    /\ coint_fails = {}
    /\ significance = 0
    /\ ScreenStart

\* the spreads of 0 .. MaxLen observations
Spreads == UNION {[1 .. len -> 0 .. MaxVal] : len \in 0 .. MaxLen}

InitSignals ==
    /\ pc = "generate_signals"
    /\ exc = "none"
    /\ spread \in Spreads
    /\ window \in 1 .. MaxWin
    /\ z_score = <<>>
    /\ signals = <<>>
    /\ ScreenIdle
    /\ BacktestIdle
    /\ SpreadIdle
    /\ MainIdle

\* lines 105-114
GenerateSignals ==
    /\ pc = "generate_signals"
    /\ z_score' = ZScore(spread, window)
    /\ signals' = SignalRules(z_score')
    /\ pc' = "signals_returned"
    /\ UNCHANGED <<exc, spread, window, screenVars>>
    /\ UNCHANGED backtestVars
    /\ UNCHANGED spreadVars
    /\ UNCHANGED mainVars

NextSignals == GenerateSignals

SpecSignals == InitSignals /\ [][NextSignals]_vars

-----------------------------------------------------------------------------
(* The signal rules of lines 109-113 on a given sequence of z-scores *)

\* the z-scores of the scenario, in tenths: 0.2, 1.3, 1.1, 0.4, -1.4, 0.1
ScenarioTenths == <<2, 13, 11, 4, -14, 1>>
Scenario == [t \in DOMAIN ScenarioTenths |-> ZOfTenths(ScenarioTenths[t])]

\* every sequence of the scenario's length made of the scenario's z-scores
ScenarioInputs ==
    [DOMAIN ScenarioTenths -> {Scenario[t] : t \in DOMAIN Scenario}]

InitScenario ==
    /\ pc = "signal_rules"
    /\ exc = "none"
    /\ spread = <<>>
    /\ window = 1
    /\ z_score \in ScenarioInputs
    /\ signals = <<>>
    /\ ScreenIdle
    /\ BacktestIdle
    /\ SpreadIdle
    /\ MainIdle

\* lines 109-113
ApplySignalRules ==
    /\ pc = "signal_rules"
    /\ signals' = SignalRules(z_score)
    /\ pc' = "rules_applied"
    /\ UNCHANGED <<exc, spread, window, z_score, screenVars>>
    /\ UNCHANGED backtestVars
    /\ UNCHANGED spreadVars
    /\ UNCHANGED mainVars

NextScenario == ApplySignalRules

SpecScenario == InitScenario /\ [][NextScenario]_vars

-----------------------------------------------------------------------------
(* backtest(S1, S2, hedge_ratio, signals, initial_investment,              *)
(*          transaction_cost, stop_loss)                                   *)
(* signals carries one index, S1 and S2 another; a label of an index is an *)
(* integer: the label itself for an integer index, the day for a           *)
(* DatetimeIndex.  An operation on two series joins their indexes: on the  *)
(* same index it goes row by row, and on two indexes without a common      *)
(* label (an integer index and a DatetimeIndex) the result has a row for   *)
(* every label of either and is NaN in each.                               *)

\* line 117: the default of initial_investment
initial_investment == 100000
\* line 117: the default of stop_loss, 0.05
StopLossDefault == Quot(5, 100)

\* the label of the t-th row
Label(idx, t) == idx.start + t - 1

\* line 119: positions['S1'] = -signals * 1
PositionS1(sig) == [t \in DOMAIN sig |-> QInt(-sig[t] * 1)]
\* line 120: positions['S2'] = signals * hedge_ratio
PositionS2(sig, h) == [t \in DOMAIN sig |-> QMul(QInt(sig[t]), h)]

\* lines 122-123: pct_change().fillna(0); the first change is NaN, filled with 0
PctChange(S) ==
    [t \in DOMAIN S |->
        IF t = 1 THEN QInt(0) ELSE Quot(S[t] - S[t - 1], S[t - 1])]

\* line 126: diff().fillna(0); the first difference is NaN, filled with 0
Diff(pos) ==
    [t \in DOMAIN pos |->
        IF t = 1 THEN QInt(0) ELSE QSub(pos[t], pos[t - 1])]

\* line 127
TransactionCosts(tr1, tr2, r1, r2, cost) ==
    [t \in DOMAIN tr1 |->
        QMul(QAdd(QMul(QAbs(tr1[t]), QAbs(r1[t])),
                  QMul(QAbs(tr2[t]), QAbs(r2[t]))),
             cost)]

\* lines 124 and 128
PortfolioReturns(pos1, pos2, r1, r2, costs) ==
    [t \in DOMAIN pos1 |->
        QSub(QAdd(QMul(pos1[t], r1[t]), QMul(pos2[t], r2[t])), costs[t])]

\* line 130: (1 + portfolio_returns).cumprod()
CumprodStep(before, rets, t) ==
    Append(before,
           IF t = 1 THEN QAdd(QInt(1), rets[t])
           ELSE QMul(before[t - 1], QAdd(QInt(1), rets[t])))
RECURSIVE CumprodUpTo(_, _)
CumprodUpTo(rets, t) ==
    IF t = 0 THEN <<>> ELSE CumprodStep(CumprodUpTo(rets, t - 1), rets, t)
Cumprod(rets) == CumprodUpTo(rets, Len(rets))

\* line 132: cummax()
CummaxStep(before, xs, t) ==
    Append(before, IF t = 1 THEN xs[t] ELSE QMax2(before[t - 1], xs[t]))
RECURSIVE CummaxUpTo(_, _)
CummaxUpTo(xs, t) ==
    IF t = 0 THEN <<>> ELSE CummaxStep(CummaxUpTo(xs, t - 1), xs, t)
Cummax(xs) == CummaxUpTo(xs, Len(xs))

\* a slip: the loss relative to the current value instead of the peak
DrawdownFromCurrent(cum, peak) ==
    [t \in DOMAIN cum |-> QDiv(QSub(peak[t], cum[t]), cum[t])]

\* line 132; the running peak is at least the first point, which is 1
DrawdownFrom(cum, peak) ==
    [t \in DOMAIN cum |-> QDiv(QSub(peak[t], cum[t]), peak[t])]
Drawdown(cum) == DrawdownFrom(cum, Cummax(cum))

\* line 133: drawdown.max() > stop_loss
StopLossHit(dd, stop) == \E t \in DOMAIN dd : QLess(stop, dd[t])
\* line 134: the position of drawdown[drawdown > stop_loss].index[0]
FirstBreach(dd, stop) ==
    CHOOSE t \in DOMAIN dd :
        /\ QLess(stop, dd[t])
        /\ \A u \in DOMAIN dd : QLess(stop, dd[u]) => t <= u

Min2(a, b) == IF a <= b THEN a ELSE b
Max2(a, b) == IF a >= b THEN a ELSE b

\* line 135: cumulative_returns[:stop_idx].  On an integer index a slice of
\* [] with an integer bound is positional and excludes the bound; on a
\* DatetimeIndex it goes by label and includes the bound.
SliceTo(series, idx, stop) ==
    IF idx.kind = "int"
    THEN SubSeq(series, 1, Min2(stop, Len(series)))
    ELSE SubSeq(series, 1, Max2(0, Min2(stop - idx.start + 1, Len(series))))

\* the indexes a series comes with: RangeIndex(start, ...) or a DatetimeIndex
Indexes ==
    {[kind |-> "int", start |-> o] : o \in 0 .. MaxOffset}
        \cup {[kind |-> "datetime", start |-> 0]}

BacktestInputs ==
    /\ \E len \in 1 .. MaxT :
        /\ S1 \in [1 .. len -> 1 .. MaxPrice]
        /\ S2 \in [1 .. len -> 1 .. MaxPrice]
        /\ signals \in [1 .. len -> {-1, 0, 1}]
    /\ hedge_ratio \in {QInt(h) : h \in 1 .. MaxHedge}
    /\ transaction_cost \in {Quot(c, CostDen) : c \in 0 .. 1}
    /\ stop_loss = StopLossDefault
    /\ index \in Indexes
    /\ price_index = index

InitBacktest ==
    /\ pc = "backtest"
    /\ exc = "none"
    /\ BacktestInputs
    /\ BacktestStart
    /\ spread = <<>>
    /\ window = 1
    /\ z_score = <<>>
    /\ ScreenIdle
    /\ SpreadIdle
    /\ MainIdle

\* lines 124, 127, 128: a series over the outer join of the index of sig and
\* the index of S, which have no label in common
NoCommonLabel(sig, S) == [t \in 1 .. Len(sig) + Len(S) |-> QNaN]

\* lines 118-139 on the prices s1 and s2 over the index pidx, the hedge ratio
\* h, the signals sig over the index idx, the cost rate and the stop level
BacktestSteps(s1, s2, h, sig, cost, stop, idx, pidx) ==
    /\ positions' = [S1 |-> Array(PositionS1(sig)),
                     S2 |-> Array(PositionS2(sig, h))]
    /\ S1_ret' = Array(PctChange(s1))
    /\ S2_ret' = Array(PctChange(s2))
    /\ trades' = [S1 |-> Array(Diff(positions'.S1)),
                  S2 |-> Array(Diff(positions'.S2))]
    /\ transaction_costs' =
           IF idx = pidx
           THEN Array(TransactionCosts(trades'.S1, trades'.S2, S1_ret',
                                       S2_ret', cost))
           ELSE NoCommonLabel(sig, s1)
    /\ portfolio_returns' =
           IF idx = pidx
           THEN Array(PortfolioReturns(positions'.S1, positions'.S2,
                                       S1_ret', S2_ret', transaction_costs'))
           ELSE NoCommonLabel(sig, s1)
    /\ drawdown' = Array(Drawdown(Cumprod(portfolio_returns')))
    /\ stop_idx' = IF StopLossHit(drawdown', stop)
                   THEN <<Label(idx, FirstBreach(drawdown', stop))>>
                   ELSE <<>>
    /\ cumulative_returns' =
           IF stop_idx' = <<>> THEN Cumprod(portfolio_returns')
           ELSE SliceTo(Cumprod(portfolio_returns'), idx, stop_idx'[1])
    /\ final_return' =
           IF cumulative_returns' = <<>> THEN final_return
           ELSE QMul(cumulative_returns'[Len(cumulative_returns')],
                     QInt(initial_investment))

\* lines 117-139
Backtest ==
    /\ pc = "backtest"
    /\ BacktestSteps(S1, S2, hedge_ratio, signals, transaction_cost,
                     stop_loss, index, price_index)
    /\ IF cumulative_returns' = <<>>
       THEN \* line 138: iloc[-1] of an empty series
            /\ pc' = "raised"
            /\ exc' = "IndexError"
       ELSE /\ pc' = "backtest_returned"
            /\ exc' = exc
    /\ UNCHANGED <<S1, S2, hedge_ratio, transaction_cost, stop_loss, index,
                   price_index, signals, spread, window, z_score,
                   screenVars>>
    /\ UNCHANGED spreadVars
    /\ UNCHANGED mainVars

\* line 139: the returned tuple
BacktestResult == <<cumulative_returns, final_return>>

NextBacktest == Backtest

SpecBacktest == InitBacktest /\ [][NextBacktest]_vars

-----------------------------------------------------------------------------
(* calculate_spread(S1, S2) *)

\* lines 72-73: dropna()
DropNa(S) == SelectSeq(S, LAMBDA v : v # NaN)
\* line 74
MinLen(a, b) == Min2(Len(a), Len(b))
\* S[:m], the first m observations
FirstObs(S, m) == SubSeq(S, 1, m)
\* lines 75-76: S[-m:], which is the whole of S when m is 0
LastObs(S, m) == IF m = 0 THEN S ELSE SubSeq(S, Len(S) - m + 1, Len(S))
\* lines 72-73: the index labels that dropna() keeps; the t-th observation
\* of a series carries the label t
KeptLabels(S) == SelectSeq([t \in DOMAIN S |-> t], LAMBDA t : S[t] # NaN)
\* lines 72-76: the labels of the observations of S1 and of S2 that reach
\* line 77, where .values drops the index
Labels1(a, b) == LastObs(KeptLabels(a), MinLen(DropNa(a), DropNa(b)))
Labels2(a, b) == LastObs(KeptLabels(b), MinLen(DropNa(a), DropNa(b)))
\* lines 72-78: the values of S1 and of S2 that reach the regression
Values1(a, b) == LastObs(DropNa(a), MinLen(DropNa(a), DropNa(b)))
Values2(a, b) == LastObs(DropNa(b), MinLen(DropNa(a), DropNa(b)))

Products(xs, ys) == [t \in DOMAIN xs |-> xs[t] * ys[t]]

\* line 80: sm.add_constant(x) adds no column of ones when x is itself a
\* column of one non-zero value (has_constant='skip')
IsNonzeroConst(x) ==
    /\ \A t \in DOMAIN x : x[t] = x[1]
    /\ \A t \in DOMAIN x : x[t] # 0

\* line 82: the least-squares parameters of y on x alone
FitNoConstant(y, x) == <<Quot(SumSeq(Products(x, y)), SumSeq(Squares(x)))>>

\* line 82: the least-squares parameters <<const, slope>> of y on a constant
\* and x; when x is all zeros the pseudo-inverse gives the slope 0
FitWithConstant(y, x) ==
    LET len == Len(x)
        det == len * SumSeq(Squares(x)) - SumSeq(x) * SumSeq(x)
        slope == IF det = 0 THEN QInt(0)
                 ELSE Quot(len * SumSeq(Products(x, y)) - SumSeq(x) * SumSeq(y),
                           det)
    IN  <<QDiv(QSub(QInt(SumSeq(y)), QMul(slope, QInt(SumSeq(x)))), QInt(len)),
          slope>>

\* lines 80-82: sm.OLS(y, sm.add_constant(x)).fit().params
OlsParams(y, x) ==
    IF IsNonzeroConst(x) THEN FitNoConstant(y, x) ELSE FitWithConstant(y, x)

\* a slip: the residual of the regression, S1 - const - hedge_ratio * S2
ResidualOf(y, x, par) ==
    [t \in DOMAIN y |->
        QSub(QSub(QInt(y[t]), par[1]), QMul(par[2], QInt(x[t])))]

\* line 84: S1 - hedge_ratio * S2
SpreadOf(y, x, par) ==
    [t \in DOMAIN y |-> QSub(QInt(y[t]), QMul(par[2], QInt(x[t])))]

\* a slip: dropna(inplace=True) on the series of the caller
ArgumentDroppedInPlace(S) == DropNa(S)

\* lines 72-78 bind new series to the local names S1 and S2 (dropna, slicing
\* and .values each return a new object): the series the caller passed is as
\* it was
Argument(S) == S

\* the series two columns of a panel can hold: values and NaN
Observations == {NaN} \cup (0 .. MaxLevel)
SpreadInputs ==
    \E len1 \in 0 .. MaxObs, len2 \in 0 .. MaxObs :
        /\ S1 \in [1 .. len1 -> Observations]
        /\ S2 \in [1 .. len2 -> Observations]

InitSpread ==
    /\ pc = "calculate_spread"
    /\ exc = "none"
    /\ SpreadInputs
    /\ SpreadIdle
    /\ spread = <<>>
    /\ hedge_ratio = QInt(0)
    /\ window = 1
    /\ z_score = <<>>
    /\ signals = <<>>
    /\ transaction_cost = QInt(0)
    /\ stop_loss = QInt(0)
    /\ index = [kind |-> "int", start |-> 0]
    /\ price_index = index
    /\ BacktestStart
    /\ ScreenIdle
    /\ MainIdle

\* lines 80-85 on the values y of S1 and x of S2 that lines 72-78 leave;
\* the caller goes on at next when the call returns
FitThen(y, x, next) ==
    IF x = <<>> \/ Len(y) # Len(x)
    THEN \* line 80 on no observation, line 82 on unequal lengths
         /\ pc' = "raised"
         /\ exc' = "ValueError"
         /\ UNCHANGED <<params, hedge_ratio, spread>>
    ELSE /\ params' = OlsParams(y, x)
         /\ IF Len(params') < 2
            THEN \* line 83: model.params[1]
                 /\ pc' = "raised"
                 /\ exc' = "IndexError"
                 /\ UNCHANGED <<hedge_ratio, spread>>
            ELSE /\ hedge_ratio' = params'[2]
                 /\ spread' = Array(SpreadOf(y, x, params'))
                 /\ pc' = next
                 /\ exc' = "none"

FitAndReturn(y, x) == FitThen(y, x, "spread_returned")

\* lines 71-85
CalculateSpread ==
    /\ pc \in {"calculate_spread", "spread_returned"}
    /\ calls < MaxCalls
    /\ calls' = calls + 1
    /\ FitAndReturn(Values1(S1, S2), Values2(S1, S2))
    /\ S1' = Argument(S1)
    /\ S2' = Argument(S2)
    /\ UNCHANGED <<window, z_score, signals, transaction_cost, stop_loss,
                   index, price_index, positions, S1_ret, S2_ret, trades,
                   transaction_costs, portfolio_returns, cumulative_returns,
                   drawdown, stop_idx, final_return, screenVars>>
    /\ UNCHANGED mainVars

\* line 181: split = int(0.7 * len(S1))
Split(len) == (7 * len) \div 10

NextSpread == CalculateSpread

SpecSpread == InitSpread /\ [][NextSpread]_vars

-----------------------------------------------------------------------------
(* __main__, lines 203-207: the best-performing pair *)

\* the order in which the loops of lines 48-49 and 169 reach the pairs
PairBefore(a, b) == a[1] < b[1] \/ (a[1] = b[1] /\ a[2] < b[2])

\* line 188: the results of up to MaxResults backtested pairs
MainInputs ==
    \E len \in 0 .. MaxResults :
        \E ps \in {q \in [1 .. len -> PairsOf(MaxN)] :
                      \A r \in 1 .. len - 1 : PairBefore(q[r], q[r + 1])} :
            \E lives \in [1 .. len -> 1 .. MaxHalfLife] :
                \E fr \in [1 .. len -> 1 .. MaxReturn] :
                    results = [r \in 1 .. len |->
                                  [pair |-> ps[r],
                                   half_life |-> lives[r],
                                   final_return |-> QInt(fr[r])]]

InitMain ==
    /\ pc = "select"
    /\ exc = "none"
    /\ MainInputs
    /\ best_pair = <<>>
    /\ LoopIdle
    /\ SignalsIdle
    /\ BacktestIdle
    /\ SpreadIdle
    /\ ScreenIdle

\* line 204: max(results, key=...) is the first of the results with the
\* largest key
FirstMax(res) ==
    CHOOSE r \in DOMAIN res :
        /\ \A u \in DOMAIN res :
              ~QLess(res[r].final_return, res[u].final_return)
        /\ \A u \in DOMAIN res :
              res[u].final_return = res[r].final_return => r <= u

\* lines 203-205
SelectBest ==
    /\ pc = "select"
    /\ results # <<>>
    /\ best_pair' = results[FirstMax(results)]
    /\ pc' = "best_printed"
    /\ UNCHANGED <<exc, results, pair, p_value, hl, split, screenVars,
                   signalVars, backtestVars, spreadVars>>

\* lines 206-207
NoSuitablePairs ==
    /\ pc = "select"
    /\ results = <<>>
    /\ pc' = "none_printed"
    /\ UNCHANGED <<exc, mainVars, screenVars, signalVars, backtestVars,
                   spreadVars>>

NextMain == SelectBest \/ NoSuitablePairs

SpecMain == InitMain /\ [][NextMain]_vars

-----------------------------------------------------------------------------
(* check_stationarity(spread), half_life(spread) and the loop of lines     *)
(* 169-200 of __main__ over the pairs that the screening returned          *)

\* the least common denominator of the values of xs
RECURSIVE CommonDen(_)
CommonDen(xs) ==
    IF xs = <<>> THEN 1 ELSE Lcm(Head(xs).den, CommonDen(Tail(xs)))
\* the values of xs as integer counts of 1 / CommonDen(xs); a regression
\* slope and a z-score are the same in every unit
InUnits(xs) ==
    [t \in DOMAIN xs |-> xs[t].num * (CommonDen(xs) \div xs[t].den)]

\* line 91: 0.05, in hundredths
AdfLevel == 5
\* adfuller(spread)[1]: a MacKinnon p-value, in hundredths
AdfPvalues == {4, 5}
\* a slip: p_value <= 0.05
StationaryOrEqual(p) == p <= AdfLevel
\* line 91
Stationary(p) == p < AdfLevel

\* line 95: np.roll(spread, 1)
Roll(xs) == [t \in DOMAIN xs |-> IF t = 1 THEN xs[Len(xs)] ELSE xs[t - 1]]
\* lines 95 and 97: spread_lag
SpreadLag(xs) == SubSeq(Roll(xs), 2, Len(xs))
\* lines 96 and 98: spread_ret
SpreadRet(xs) ==
    SubSeq([t \in DOMAIN xs |-> xs[t] - Roll(xs)[t]], 2, Len(xs))

\* line 101: np.log(2) = 0.69314718..., as 0.6931 + 0.00004718 + a rest below
\* 10^-8, in units of 1 / TenThousand and 1 / TenThousand^2
TenThousand == 10000
Ln2Head == 6931
Ln2Next == 4718
\* num / den < log(2), for den > 0 and num / den not within 10^-8 of log(2)
BelowLn2(num, den) ==
    LET rest == TenThousand * num - Ln2Head * den
    IN  \/ rest < 0
        \/ rest < den /\ TenThousand * rest < Ln2Next * den
\* line 102: round(log(2) / |phi|) for phi # 0, the integer r with
\* r - 1/2 < log(2) / |phi| < r + 1/2 (log(2) / |phi| is never a half)
RoundedLog2Over(phi) ==
    CHOOSE r \in 0 .. phi.den :
        /\ BelowLn2((2 * r - 1) * Abs(phi.num), 2 * phi.den)
        /\ ~BelowLn2((2 * r + 1) * Abs(phi.num), 2 * phi.den)
\* lines 101-102: int(round(-np.log(2) / phi)) for phi # 0
HalfLifeOf(phi) ==
    IF phi.num < 0 THEN RoundedLog2Over(phi) ELSE -RoundedLog2Over(phi)

\* a slip: hl >= 0
NotNegative(h) == h >= 0
\* line 177
Positive(h) == h > 0

\* line 117: the defaults of transaction_cost and stop_loss
TransactionCostDefault == Quot(5, 10000)

\* the pairs that find_cointegrated_pairs returned: pairs of columns
\* without a column in common, so that the columns of one pair say nothing
\* about those of another
DisjointPairs(m) == [r \in 1 .. m |-> <<2 * r - 1, 2 * r>>]
\* a column of the panel after line 158: MaxDays prices, none missing, from
\* the price 1 on and moving by one unit a day at most
PanelColumns ==
    {c \in [1 .. MaxDays -> 1 .. MaxQuote] :
        /\ c[1] = 1
        /\ \A t \in 1 .. MaxDays - 1 : Abs(c[t + 1] - c[t]) <= 1}
\* the columns that never fall: the first legs of the pairs
RisingColumns ==
    {c \in PanelColumns : \A t \in 1 .. MaxDays - 1 : c[t] <= c[t + 1]}
\* prices.index, a DatetimeIndex
PanelIndex == [kind |-> "datetime", start |-> 0]
\* pd.Series(spread).index, a RangeIndex
RangeIndex == [kind |-> "int", start |-> 0]
\* the index of S[s:], a slice by position
IndexFrom(idx, s) == [kind |-> idx.kind, start |-> idx.start + s]
\* S[s:]
SliceFrom(S, s) == SubSeq(S, s + 1, Len(S))

\* where line 169 goes after the pair at place p - 1: the next pair, or line 203
LoopAt(p) == IF p <= Len(pairs) THEN "for_pair" ELSE "select"

\* no pair under analysis: the names of lines 170-186 are unbound
PairIdle ==
    /\ SignalsIdle
    /\ S1 = <<>>
    /\ S2 = <<>>
    /\ hedge_ratio = QInt(0)
    /\ index = RangeIndex
    /\ price_index = PanelIndex
    /\ BacktestStart
    /\ params = <<>>
    /\ p_value = 0
    /\ hl = 0
    /\ split = 0

InitPipeline ==
    /\ \E m \in 0 .. MaxPairs : pairs = DisjointPairs(m)
    /\ pc = LoopAt(1)
    /\ exc = "none"
    /\ n = 0
    /\ coint_fails = {}
    /\ significance = 0
    /\ pvalue_matrix = [pr \in Columns(n) \X Columns(n) |-> PDen]
    /\ pvalues = <<>>
    /\ indices = <<>>
    /\ corrected_pvalues = <<>>
    /\ i = 1
    /\ j = 2
    /\ k = 1
    /\ transaction_cost = TransactionCostDefault
    /\ stop_loss = StopLossDefault
    /\ PairIdle
    /\ calls = 0
    /\ results = <<>>
    /\ best_pair = <<>>
    /\ pair = 1

\* line 169: on to the next pair.  What the analysis of this pair bound is not
\* read again before lines 170-186 bind it anew, and is unbound here.
NextPair ==
    /\ pair' = pair + 1
    /\ pc' = LoopAt(pair + 1)
    /\ spread' = <<>>
    /\ window' = 1
    /\ z_score' = <<>>
    /\ signals' = <<>>
    /\ S1' = <<>>
    /\ S2' = <<>>
    /\ hedge_ratio' = QInt(0)
    /\ index' = RangeIndex
    /\ price_index' = PanelIndex
    /\ positions' = [S1 |-> <<>>, S2 |-> <<>>]
    /\ S1_ret' = <<>>
    /\ S2_ret' = <<>>
    /\ trades' = [S1 |-> <<>>, S2 |-> <<>>]
    /\ transaction_costs' = <<>>
    /\ portfolio_returns' = <<>>
    /\ cumulative_returns' = <<>>
    /\ drawdown' = <<>>
    /\ stop_idx' = <<>>
    /\ final_return' = QInt(0)
    /\ params' = <<>>
    /\ p_value' = 0
    /\ hl' = 0
    /\ split' = 0

\* lines 169-172: the next pair, its two columns and calculate_spread
SpreadOfPair ==
    /\ pc = "for_pair"
    /\ \E s1 \in RisingColumns, s2 \in PanelColumns :
          /\ S1' = s1
          /\ S2' = s2
          /\ FitThen(Values1(s1, s2), Values2(s1, s2), "check_stationarity")
    /\ calls' = calls + 1
    /\ UNCHANGED <<window, z_score, signals, transaction_cost, stop_loss,
                   index, price_index, positions, S1_ret, S2_ret, trades,
                   transaction_costs, portfolio_returns, cumulative_returns,
                   drawdown, stop_idx, final_return, screenVars>>
    /\ UNCHANGED mainVars

\* the call of line 174, lines 88-91: adfuller raises on some spreads (a
\* constant one, one too short for its lags) and gives a p-value on others
CheckStationarity ==
    /\ pc = "check_stationarity"
    /\ \/ /\ pc' = "raised"
          /\ exc' = "ValueError"
          /\ UNCHANGED p_value
       \/ \E p \in AdfPvalues :
             /\ p_value' = p
             /\ pc' = "if_stationary"
             /\ exc' = exc
    /\ UNCHANGED <<results, best_pair, pair, hl, split>>
    /\ UNCHANGED <<screenVars, signalVars, backtestVars, spreadVars>>

\* line 174, the test that was False
NotStationary ==
    /\ pc = "if_stationary"
    /\ ~Stationary(p_value)
    /\ NextPair
    /\ UNCHANGED <<exc, results, best_pair, calls, transaction_cost,
                   stop_loss, screenVars>>

\* lines 174-176 and 94-102: the test that was True, and half_life
HalfLife ==
    /\ pc = "if_stationary"
    /\ Stationary(p_value)
    /\ LET spread_lag == SpreadLag(InUnits(spread))
           spread_ret == SpreadRet(InUnits(spread))
       IN  IF spread_lag = <<>>
           THEN \* line 99 on no observation
                /\ pc' = "raised"
                /\ exc' = "ValueError"
                /\ UNCHANGED <<params, hl>>
           ELSE /\ params' = OlsParams(spread_ret, spread_lag)
                /\ IF Len(params') < 2
                   THEN \* line 101: model.params[1]
                        /\ pc' = "raised"
                        /\ exc' = "IndexError"
                        /\ UNCHANGED hl
                   ELSE IF params'[2] = QInt(0)
                   THEN \* line 102: int(round(-inf))
                        /\ pc' = "raised"
                        /\ exc' = "OverflowError"
                        /\ UNCHANGED hl
                   ELSE /\ hl' = HalfLifeOf(params'[2])
                        /\ pc' = "if_positive"
                        /\ exc' = exc
    /\ UNCHANGED <<results, best_pair, pair, p_value, split, calls>>
    /\ UNCHANGED <<screenVars, signalVars, backtestVars>>

\* line 177, the test that was False
NotPositive ==
    /\ pc = "if_positive"
    /\ ~Positive(hl)
    /\ NextPair
    /\ UNCHANGED <<exc, results, best_pair, calls, transaction_cost,
                   stop_loss, screenVars>>

\* lines 177-179 and 105-114: the test that was True, and generate_signals
SignalsOfPair ==
    /\ pc = "if_positive"
    /\ Positive(hl)
    /\ window' = hl
    /\ z_score' = ZScore(InUnits(spread), window')
    /\ signals' = SignalRules(z_score')
    /\ pc' = "backtest_pair"
    /\ UNCHANGED <<exc, spread, screenVars, backtestVars, spreadVars,
                   mainVars>>

\* lines 181-186: the split and the backtest on the test part
BacktestOfPair ==
    /\ pc = "backtest_pair"
    /\ split' = Split(Len(S1))
    /\ index' = IndexFrom(RangeIndex, split')
    /\ price_index' = IndexFrom(PanelIndex, split')
    /\ BacktestSteps(SliceFrom(S1, split'), SliceFrom(S2, split'),
                     hedge_ratio, SliceFrom(signals, split'),
                     transaction_cost, stop_loss, index', price_index')
    /\ IF cumulative_returns' = <<>>
       THEN \* line 138: iloc[-1] of an empty series
            /\ pc' = "raised"
            /\ exc' = "IndexError"
       ELSE /\ pc' = "append_result"
            /\ exc' = exc
    /\ UNCHANGED <<S1, S2, hedge_ratio, transaction_cost, stop_loss,
                   results, best_pair, pair, p_value, hl, screenVars,
                   signalVars, spreadVars>>

\* lines 188-200
AppendResult ==
    /\ pc = "append_result"
    /\ results' = Append(results, [pair |-> pairs[pair],
                                   half_life |-> hl,
                                   final_return |-> final_return])
    /\ NextPair
    /\ UNCHANGED <<exc, best_pair, calls, transaction_cost, stop_loss,
                   screenVars>>

NextPipeline ==
    \/ SpreadOfPair
    \/ CheckStationarity
    \/ NotStationary
    \/ HalfLife
    \/ NotPositive
    \/ SignalsOfPair
    \/ BacktestOfPair
    \/ AppendResult
    \/ SelectBest
    \/ NoSuitablePairs

SpecPipeline == InitPipeline /\ [][NextPipeline]_vars

-----------------------------------------------------------------------------
(* backtest on a first leg that loses 2% per period *)

\* 50^3 * (49/50)^t for t = 0 .. 3: each price is 2% below the one before
FallingPrices == <<125000, 122500, 120050, 117649>>

\* every series of these prices that starts at the first of them, held long
\* (signal -1) against a flat second leg
InitStopScenario ==
    /\ pc = "backtest"
    /\ exc = "none"
    /\ S1 \in {s \in [DOMAIN FallingPrices ->
                        {FallingPrices[t] : t \in DOMAIN FallingPrices}] :
                 s[1] = FallingPrices[1]}
    /\ S2 = [t \in DOMAIN FallingPrices |-> 1]
    /\ signals = [t \in DOMAIN FallingPrices |-> -1]
    /\ hedge_ratio = QInt(1)
    /\ transaction_cost = Quot(5, 10000)
    /\ stop_loss = StopLossDefault
    /\ index \in Indexes
    /\ price_index = index
    /\ BacktestStart
    /\ spread = <<>>
    /\ window = 1
    /\ z_score = <<>>
    /\ ScreenIdle
    /\ SpreadIdle
    /\ MainIdle

SpecStopScenario == InitStopScenario /\ [][NextBacktest]_vars

-----------------------------------------------------------------------------
(* Claims about find_cointegrated_pairs, checked under SpecScreen *)

Range(seq) == {seq[x] : x \in DOMAIN seq}
Corrected == pc \in {"extract", "returned"}

\* C1: the corrected p-value of a pair is never smaller than its raw p-value,
\* so every pair whose corrected p-value is below the significance level, and
\* every pair returned, has its raw p-value below that level too.
C1_CorrectionMonotone ==
    /\ Corrected =>
          \A x \in DOMAIN pvalues :
             /\ ~RatLess(corrected_pvalues[x], RatOfP(pvalues[x]))
             /\ RatLess(corrected_pvalues[x], RatOfP(significance))
                   => pvalues[x] < significance
    /\ pc = "returned" =>
          \A pr \in Range(pairs) : pvalue_matrix[pr] < significance

\* C1 happens: a run returned a pair while another pair passes the level on
\* its raw p-value and fails it on its corrected p-value.
C1_Witness ==
    /\ pc = "returned"
    /\ pairs # <<>>
    /\ \E x \in DOMAIN pvalues :
          /\ pvalues[x] < significance
          /\ ~RatLess(corrected_pvalues[x], RatOfP(significance))

\* C2: the pairs returned are exactly the pairs whose corrected p-value is
\* strictly below the significance level, each once, each (a, b) with a < b.
C2_ReturnsExactlySignificant ==
    pc = "returned" =>
       /\ Range(pairs) =
             {indices[x] : x \in {y \in DOMAIN indices :
                 RatLess(corrected_pvalues[y], RatOfP(significance))}}
       /\ \A x, y \in DOMAIN pairs :
             (pairs[x] = pairs[y] \/ pairs[x] = <<pairs[y][2], pairs[y][1]>>)
                => x = y
       /\ \A x \in DOMAIN pairs : pairs[x][1] < pairs[x][2]

\* C2 happens: a run returned some pairs and left out a pair whose corrected
\* p-value equals the significance level.
C2_Witness ==
    /\ pc = "returned"
    /\ pairs # <<>>
    /\ \E x \in DOMAIN indices :
          /\ corrected_pvalues[x].num = significance * corrected_pvalues[x].den
          /\ indices[x] \notin Range(pairs)

\* C3: when the loops are over and ever after, one raw p-value has been
\* computed for each pair (a, b), a < b, of the n columns: n (n - 1) / 2 in all.
C3_AllPairsTested ==
    (Corrected \/ (pc = "collect" /\ ~LoopHasPair)
               \/ (pc = "raised" /\ exc = "ZeroDivisionError")) =>
       /\ Len(pvalues) = (n * (n - 1)) \div 2
       /\ Len(indices) = Len(pvalues)
       /\ Range(indices) = PairsOf(n)
       /\ \A x \in DOMAIN indices : pvalue_matrix[indices[x]] = pvalues[x]

\* C3 happens: the correction has run on the three p-values of a panel of three.
C3_Witness == pc = "extract" /\ n = 3 /\ Len(pvalues) = 3

\* C4: no run is ended by the failure of one pair's cointegration test, and a
\* run that ended has tested every pair whose test does not fail.
C4_PairFailureDoesNotAbort ==
    /\ ~(pc = "raised" /\ exc = "CointError")
    /\ pc \in {"raised", "returned"} =>
          \A pr \in PairsOf(n) \ coint_fails : pr \in Range(indices)

\* C5: a panel of fewer than 2 instruments raises no error and returns no pair.
C5_FewInstrumentsReturnEmpty ==
    n < 2 => /\ pc # "raised"
             /\ pc = "returned" => pairs = <<>>

-----------------------------------------------------------------------------
(* Claims about generate_signals, checked under SpecSignals and SpecScenario *)

Returned == pc = "signals_returned"
InExitBand(z) == ZGreater(z, -5) /\ ZLess(z, 5)
\* the signal before index t; the series starts flat
Previous(t) == IF t = 1 THEN 0 ELSE signals[t - 1]

\* C6: at every index, z > 1 gives -1, z < -1 gives +1, -0.5 < z < 0.5 gives 0,
\* and any other z-score (between the bands, on a threshold, or undefined)
\* leaves the signal of the index before.
C6_TransitionFunction ==
    Returned =>
       \A t \in DOMAIN z_score :
          IF ZGreater(z_score[t], 10) THEN signals[t] = -1
          ELSE IF ZLess(z_score[t], -10) THEN signals[t] = 1
          ELSE IF InExitBand(z_score[t]) THEN signals[t] = 0
          ELSE signals[t] = Previous(t)

\* C6 happens: one returned series carries a non-zero signal over a z-score that
\* is exactly on a threshold and over an undefined z-score after the warm-up.
C6_Witness ==
    /\ Returned
    /\ \E t \in DOMAIN z_score :
          /\ t > 1 /\ signals[t - 1] # 0 /\ signals[t] = signals[t - 1]
          /\ ~z_score[t].nan
          /\ (z_score[t].n2 = z_score[t].d2 \/ 4 * z_score[t].n2 = z_score[t].d2)
    /\ \E t \in DOMAIN z_score :
          /\ t > window /\ signals[t - 1] # 0 /\ signals[t] = signals[t - 1]
          /\ z_score[t].nan

\* C7 as claimed: a non-zero signal stays until the z-score is in the exit
\* band, and the signal never goes from +1 to -1 or from -1 to +1 in one step.
C7_NoDirectFlip ==
    Returned =>
       \A t \in DOMAIN signals :
          t > 1 =>
             /\ (signals[t - 1] # 0 /\ ~InExitBand(z_score[t]))
                   => signals[t] = signals[t - 1]
             /\ ~(signals[t - 1] = 1 /\ signals[t] = -1)
             /\ ~(signals[t - 1] = -1 /\ signals[t] = 1)

\* C7 as amended: a non-zero signal changes only to 0, on a z-score in the exit
\* band, or to the opposite sign in one step, on a z-score beyond the opposite
\* entry threshold (z > 1 after +1, z < -1 after -1).
C7_HoldUntilExitOrOppositeEntry ==
    Returned =>
       \A t \in DOMAIN signals :
          (t > 1 /\ signals[t - 1] # 0 /\ signals[t] # signals[t - 1]) =>
             \/ signals[t] = 0 /\ InExitBand(z_score[t])
             \/ signals[t - 1] = 1 /\ signals[t] = -1 /\ ZGreater(z_score[t], 10)
             \/ signals[t - 1] = -1 /\ signals[t] = 1 /\ ZLess(z_score[t], -10)

\* C7 happens: a returned series holds a non-zero signal between the bands and
\* flips it in one step.
C7_Witness ==
    /\ Returned
    /\ \E t \in DOMAIN signals :
          /\ t > 1 /\ signals[t - 1] # 0 /\ signals[t] = signals[t - 1]
          /\ ~z_score[t].nan /\ ~InExitBand(z_score[t])
    /\ \E t \in DOMAIN signals :
          t > 1 /\ signals[t - 1] # 0 /\ signals[t] = -signals[t - 1]

\* C8 as claimed: the scenario's z-scores give the signals 0, -1, -1, -1, 1, 1.
C8_ScenarioAsClaimed ==
    (pc = "rules_applied" /\ z_score = Scenario) =>
       signals = <<0, -1, -1, -1, 1, 1>>

\* C8 as amended: the scenario's z-scores give the signals 0, -1, -1, 0, 1, 0
\* (0.4 and 0.1 are in the exit band).
C8_ScenarioSignals ==
    (pc = "rules_applied" /\ z_score = Scenario) =>
       signals = <<0, -1, -1, 0, 1, 0>>

\* C8 happens: the rules have been applied to the scenario's z-scores.
C8_Witness == pc = "rules_applied" /\ z_score = Scenario

\* C9: each of the first window - 1 observations has signal 0.
C9_WarmUpIsFlat ==
    Returned =>
       \A t \in DOMAIN signals : t <= window - 1 => signals[t] = 0

\* C9 happens: a returned series has a warm-up and a non-zero signal right
\* after it.
C9_Witness ==
    /\ Returned
    /\ window >= 2
    /\ Len(signals) >= window
    /\ signals[window] # 0

\* C10: the signals are -1, 0 or 1, one for each observation of the spread.
C10_SignalsAlignedAndTernary ==
    Returned =>
       /\ DOMAIN signals = DOMAIN spread
       /\ Len(signals) = Len(spread)
       /\ \A t \in DOMAIN signals : signals[t] \in {-1, 0, 1}

\* C10 happens: a returned series holds each of the three signals.
C10_Witness ==
    /\ Returned
    /\ Len(spread) = MaxLen
    /\ Range(signals) = {-1, 0, 1}

-----------------------------------------------------------------------------
(* Claims about backtest, checked under SpecBacktest and SpecStopScenario *)

BacktestReturned == pc = "backtest_returned"
Stopped == StopLossHit(drawdown, stop_loss)

\* C11: the reported cumulative-return curve holds no point later than the
\* first period whose drawdown exceeds stop_loss, whatever the index of the
\* input series (integers from 0, integers from an offset, timestamps), so a
\* later recovery never extends the curve again.
C11_NoPointAfterFirstBreach ==
    (BacktestReturned /\ Stopped)
        => Len(cumulative_returns) <= FirstBreach(drawdown, stop_loss)

\* C12: with a portfolio return of -2% in every period after the first and
\* stop_loss = 0.05, the stop-loss triggers at period 3 (the first period
\* being period 0): the drawdown after 2 losing periods is 3.96% and does not
\* trigger, the drawdown after 3 losing periods is 5.8808% and does.
C12_StopsAtPeriodThree ==
    (BacktestReturned /\ S1 = FallingPrices)
        => /\ portfolio_returns =
                  <<QInt(0), Quot(-2, 100), Quot(-2, 100), Quot(-2, 100)>>
           /\ drawdown[3] = Quot(396, 10000)
           /\ ~QLess(stop_loss, drawdown[3])
           /\ drawdown[4] = Quot(58808, 1000000)
           /\ QLess(stop_loss, drawdown[4])
           /\ stop_idx = <<Label(index, 4)>>
           /\ stop_idx[1] - index.start = 3
C12_Witness ==
    /\ BacktestReturned
    /\ S1 = FallingPrices
    /\ index = [kind |-> "int", start |-> 0]
    /\ stop_idx = <<3>>
    /\ Len(cumulative_returns) = 3

\* C13: for a positive hedge ratio, a long-spread signal (+1) gives a long
\* position in leg 1 and a short position in leg 2, and a short-spread
\* signal (-1) gives the opposite.
C13_LongSpreadIsLongLegOne ==
    (BacktestReturned /\ QLess(QInt(0), hedge_ratio))
        => \A t \in DOMAIN signals :
              /\ signals[t] = 1
                    => /\ QLess(QInt(0), positions.S1[t])
                       /\ QLess(positions.S2[t], QInt(0))
              /\ signals[t] = -1
                    => /\ QLess(positions.S1[t], QInt(0))
                       /\ QLess(QInt(0), positions.S2[t])

\* the position of a leg before period t; the run starts flat
PositionBefore(pos, t) == IF t = 1 THEN QInt(0) ELSE pos[t - 1]
\* |change in pos1| + |change in pos2| at period t
TradedNotional(t) ==
    QAdd(QAbs(QSub(positions.S1[t], PositionBefore(positions.S1, t))),
         QAbs(QSub(positions.S2[t], PositionBefore(positions.S2, t))))
\* the return of period t before costs
GrossReturn(t) ==
    QAdd(QMul(positions.S1[t], S1_ret[t]), QMul(positions.S2[t], S2_ret[t]))

\* C14: with a positive cost rate, on every period where the position of a
\* leg differs from the period before (the opening of the first position
\* included) the return is reduced by the strictly positive cost
\* transaction_cost * (|change in pos1| + |change in pos2|), whatever the
\* price returns of that period, zero included.
C14_CostOnTradedNotional ==
    (BacktestReturned /\ QLess(QInt(0), transaction_cost))
        => \A t \in DOMAIN signals :
              QLess(QInt(0), TradedNotional(t))
                  => /\ transaction_costs[t] =
                            QMul(transaction_cost, TradedNotional(t))
                     /\ QLess(QInt(0), transaction_costs[t])
                     /\ portfolio_returns[t] =
                            QSub(GrossReturn(t), transaction_costs[t])

\* C15: when the stop-loss triggers, the value backtest returns holds the
\* label at which the run was truncated besides the curve and the final
\* value; when it does not trigger, it holds no such label.
C15_ResultCarriesStopLabel ==
    BacktestReturned
        => IF Stopped
           THEN /\ Len(BacktestResult) = 3
                /\ BacktestResult[3] = stop_idx[1]
           ELSE Len(BacktestResult) = 2

-----------------------------------------------------------------------------
(* Claims about calculate_spread, checked under SpecSpread *)

SpreadReturned == pc = "spread_returned"
\* the columns of the panel hold no NaN (line 158)
NoNaN(S) == \A t \in DOMAIN S : S[t] # NaN
\* the series of the length of S that agree with S on the training split
SameTraining(S) ==
    {T \in [DOMAIN S -> 0 .. MaxLevel] :
        \A t \in 1 .. Split(Len(S)) : T[t] = S[t]}

\* C16: the hedge ratio of a pair depends on the training split alone: two
\* panels that agree on the first 70% of the observations and differ only in
\* the last 30% give the same hedge ratio.
C16_HedgeRatioFromTrainingSplit ==
    (SpreadReturned /\ NoNaN(S1) /\ NoNaN(S2) /\ Len(S1) = Len(S2))
        => \A T1 \in SameTraining(S1), T2 \in SameTraining(S2) :
              Len(OlsParams(T1, T2)) = 2
                  => OlsParams(T1, T2)[2] = hedge_ratio

\* every value of x is the same: x has zero variance
ZeroVariance(x) == x # <<>> /\ \A t \in DOMAIN x : x[t] = x[1]

\* C18: on a regressor S2 with zero variance calculate_spread fails with an
\* EstimationError and returns no hedge ratio.
C18_ZeroVarianceIsEstimationError ==
    (calls > 0 /\ ZeroVariance(Values2(S1, S2)))
        => pc = "raised" /\ exc = "EstimationError"

RECURSIVE QSum(_)
QSum(qs) == IF qs = <<>> THEN QInt(0) ELSE QAdd(Head(qs), QSum(Tail(qs)))
\* y[t] = hedge_ratio * x[t] + spread[t] + extra for every t
RoundTrip(y, x, extra) ==
    /\ DOMAIN spread = DOMAIN y
    /\ \A t \in DOMAIN spread :
          QInt(y[t]) = QAdd(QAdd(QMul(hedge_ratio, QInt(x[t])), spread[t]),
                            extra)

\* C19 as stated: S1[t] = hedge_ratio * S2[t] + spread[t] + intercept for
\* every t, with the intercept the fitted constant of the regression.
C19_RoundTripWithIntercept ==
    SpreadReturned
        => RoundTrip(Values1(S1, S2), Values2(S1, S2), params[1])

\* C19, amended: S1[t] = hedge_ratio * S2[t] + spread[t] for every t of the
\* observations that reach the regression; the spread is the residual of the
\* regression plus its fitted constant, so spread - constant sums to zero.
C19_RoundTripWithoutIntercept ==
    SpreadReturned
        => /\ RoundTrip(Values1(S1, S2), Values2(S1, S2), QInt(0))
           /\ QSum([t \in DOMAIN spread |-> QSub(spread[t], params[1])])
                 = QInt(0)
C19_Witness ==
    /\ SpreadReturned
    /\ Len(spread) >= 3
    /\ params[1] # QInt(0)
    /\ hedge_ratio # QInt(0)
    /\ \E t \in DOMAIN spread : spread[t] # params[1]

-----------------------------------------------------------------------------
(* Claims about the selection of the best pair, checked under SpecMain *)

\* C17: the selected pair has a final return at least that of every other
\* backtested pair, and among the pairs with the largest final return it has
\* the shortest half-life, whatever the order of the results.
C17_BestReturnThenShortestHalfLife ==
    pc = "best_printed"
        => /\ best_pair \in Range(results)
           /\ \A r \in DOMAIN results :
                 /\ ~QLess(best_pair.final_return, results[r].final_return)
                 /\ results[r].final_return = best_pair.final_return
                       => best_pair.half_life <= results[r].half_life

\* the last m observations of a NaN-free series
Trailing(S, m) == [t \in 1 .. m |-> S[Len(S) - m + t]]

\* C21: a spread that calculate_spread returns has the length of the shorter
\* of the two NaN-free series, and its t-th value is built from the t-th of
\* the last min(len(S1), len(S2)) observations of each series.
C21_TruncatedToLastMinLen ==
    SpreadReturned
        => LET a == DropNa(S1)
               b == DropNa(S2)
               m == MinLen(a, b)
           IN  /\ Len(spread) = m
               /\ \A t \in 1 .. m :
                     spread[t] = QSub(QInt(Trailing(a, m)[t]),
                                      QMul(hedge_ratio,
                                           QInt(Trailing(b, m)[t])))

\* two NaN-free inputs of different lengths, the longer one losing a leading
\* observation that differs from the one that takes its place
C21_Witness ==
    /\ SpreadReturned
    /\ NoNaN(S1) /\ NoNaN(S2)
    /\ Len(S1) = Len(S2) + 1
    /\ S1[1] # S1[2]
    /\ hedge_ratio # QInt(0)
    /\ Len(spread) = Len(S2)


\* C30: in a call that returns, the k-th retained observation of S1 and the
\* k-th retained observation of S2 carry the same timestamp, for two series
\* over the same timestamps.
C30_RetainedObservationsAligned ==
    (SpreadReturned /\ Len(S1) = Len(S2))
        => Labels1(S1, S2) = Labels2(S1, S2)

\* a significance level outside the open interval (0, 1)
InvalidSignificance == significance <= 0 \/ significance >= PDen

\* C24: with a significance level outside (0, 1) find_cointegrated_pairs
\* computes nothing and returns nothing: no cointegration test is run and the
\* call does not return a list of pairs.
C24_InvalidSignificanceRejected ==
    InvalidSignificance
        => /\ pvalues = <<>>
           /\ pc # "returned"

\* the raw p-value of every pair of the panel has been collected
BatchComplete ==
    /\ Len(pvalues) = Cardinality(PairsOf(n))
    /\ Range(indices) = PairsOf(n)

\* C25: the corrected p-values are written once, from empty, and only when
\* the raw p-value of each of the C(n,2) pairs is in the batch; a step that
\* accepts or rejects a pair is taken only on a complete batch that has been
\* corrected, and leaves the corrected p-values as they are.
C25_CorrectionOnceAfterFullBatch ==
    [][/\ corrected_pvalues' # corrected_pvalues
              => /\ corrected_pvalues = <<>>
                 /\ BatchComplete
                 /\ pairs = <<>> /\ k = 1
       /\ (pairs' # pairs \/ k' # k)
              => /\ BatchComplete
                 /\ Len(corrected_pvalues) = Cardinality(PairsOf(n))
                 /\ corrected_pvalues' = corrected_pvalues
                 /\ pvalues' = pvalues]_vars

\* a run over three instruments that accepted one pair and rejected another
C25_Witness ==
    /\ pc = "returned"
    /\ n = 3
    /\ Len(corrected_pvalues) = 3
    /\ Len(pairs) \in {1, 2}

\* seq with the entries at a and b exchanged
Swap(seq, a, b) ==
    [x \in DOMAIN seq |->
        IF x = a THEN seq[b] ELSE IF x = b THEN seq[a] ELSE seq[x]]
\* the pairs that lines 60-66 return for the tests idx with raw p-values pv
SignificantPairs(idx, pv) ==
    LET corrected == FdrBh(pv)
    IN  {idx[x] : x \in {y \in DOMAIN pv : Significant(corrected[y])}}
\* exchanging two neighbouring tests in the order of evaluation returns the
\* same pairs (every reordering is a sequence of such exchanges)
OrderIrrelevant ==
    \A a \in 1 .. Len(pvalues) - 1 :
        SignificantPairs(Array(Swap(indices, a, a + 1)),
                         Array(Swap(pvalues, a, a + 1))) = Range(pairs)

\* C26: a step of the screening writes no entry of the p-value matrix but
\* that of the pair (i, j), i < j, under test, which no earlier test wrote,
\* and the value written is that test's own p-value; the diagonal and the
\* lower triangle keep their initial value 1; and the set of pairs returned is
\* the same when two neighbouring tests change places in the order of
\* evaluation, hence under every reordering of the tests.
C26_OwnSlotWrittenOnce ==
    /\ [](/\ \A pr \in DOMAIN pvalue_matrix :
                pr[1] >= pr[2] => pvalue_matrix[pr] = PDen
          /\ pc = "returned" => OrderIrrelevant)
    /\ [][/\ indices' # indices
                 => /\ i < j
                    /\ <<i, j>> \notin Range(indices)
                    /\ indices' = Append(indices, <<i, j>>)
                    /\ pvalue_matrix'[<<i, j>>] = pvalues'[Len(pvalues')]
                    /\ \A pr \in DOMAIN pvalue_matrix :
                          pr # <<i, j>>
                              => pvalue_matrix'[pr] = pvalue_matrix[pr]
          /\ indices' = indices => pvalue_matrix' = pvalue_matrix]_vars

\* a run over three instruments that returned some of the pairs, with an
\* entry of the upper triangle below 1
C26_Witness ==
    /\ pc = "returned"
    /\ n = 3
    /\ Len(pairs) \in {1, 2}
    /\ pvalue_matrix[<<2, 3>>] < PDen
    /\ pvalue_matrix[<<1, 2>>] # pvalue_matrix[<<1, 3>>]

-----------------------------------------------------------------------------
(* Claims about the loop of lines 169-200, checked under SpecPipeline *)

\* check_stationarity returned True for the pair under analysis
PassedStationarity == p_value \in AdfPvalues /\ p_value < AdfLevel
\* generate_signals has been called for the pair under analysis
SignalsGenerated == pc \in {"backtest_pair", "append_result"}
\* backtest has returned for the pair under analysis
PairBacktested == pc = "append_result"

\* C22: while signals or a backtest result of a pair exist, the pair's ADF
\* p-value is below 0.05 and its half-life is positive; a step that stores a
\* result stores one result, of the pair under analysis, which passed both
\* checks; and every stored result has a positive half-life.
C22_ResultsOnlyAfterBothChecks ==
    /\ []((signals # <<>> \/ cumulative_returns # <<>> \/ SignalsGenerated)
              => PassedStationarity /\ hl > 0)
    /\ [](\A r \in DOMAIN results : results[r].half_life > 0)
    /\ [][results' # results
              => /\ PassedStationarity /\ hl > 0
                 /\ PairBacktested
                 /\ Len(results') = Len(results) + 1
                 /\ results'[Len(results')].pair = pairs[pair]
                 /\ results'[Len(results')].half_life = hl]_vars

\* a pair that passed both checks, traded, and whose result was stored
C22_Witness ==
    /\ pc = "best_printed"
    /\ Len(results) = 1
    /\ results[1].half_life >= 2
    /\ results[1].pair = pairs[1]

\* C23: the analysis of a pair whose spread passed the stationarity test does
\* not end the run: when the regression coefficient phi is zero or positive,
\* or when no half-life can be computed, the pair is skipped and the loop goes
\* on.
C23_NonRevertingPairSkipped ==
    PassedStationarity => pc # "raised"

\* the regression coefficient of line 101 and its half-life, for the pair
\* under analysis
HalfLifeKnown == pc \in {"if_positive", "backtest_pair", "append_result"}
\* x is log(2) / |phi| rounded: x - 1/2 < log(2) / |phi| < x + 1/2
IsRoundedLog2Over(x, phi) ==
    /\ BelowLn2((2 * x - 1) * Abs(phi.num), 2 * phi.den)
    /\ ~BelowLn2((2 * x + 1) * Abs(phi.num), 2 * phi.den)

\* C27: whenever generate_signals has been called for a pair, its window is
\* the pair's half-life, the integer nearest to log(2) / -phi, and is at
\* least 1; a pair whose half-life is rounded to 0 gets no signals.
C27_WindowIsPositiveHalfLife ==
    /\ SignalsGenerated
           => /\ window = hl
              /\ window >= 1
              /\ params[2].num < 0
              /\ IsRoundedLog2Over(window, params[2])
    /\ (HalfLifeKnown /\ hl = 0) => ~SignalsGenerated /\ signals = <<>>

\* signals over a window of two periods or more, some of them not flat
C27_Witness ==
    /\ pc = "backtest_pair"
    /\ window >= 2
    /\ window < Len(spread)
    /\ \E t \in DOMAIN signals : signals[t] # 0

\* C28: when backtest has returned, the first point of its cumulative-return
\* curve is 1, the running peak is at least 1 and never falls, and the
\* drawdown is a number and at least 0 in every period.
C28_CurveStartsAtOne ==
    PairBacktested
        => /\ cumulative_returns[1] = QInt(1)
           /\ \A t \in DOMAIN cumulative_returns :
                 /\ ~QLess(Cummax(cumulative_returns)[t], QInt(1))
                 /\ Cummax(cumulative_returns)[t] # QNaN
           /\ \A t \in DOMAIN drawdown :
                 /\ drawdown[t] # QNaN
                 /\ ~QLess(drawdown[t], QInt(0))

\* C29: when backtest has returned, the signals it was given carry the index
\* of the prices it was given, its portfolio returns have one row per test
\* period and every one of them is a number.
C29_TestSignalsShareThePriceIndex ==
    PairBacktested
        => /\ index = price_index
           /\ Len(portfolio_returns) = Len(S1) - split
           /\ \A t \in DOMAIN portfolio_returns : portfolio_returns[t] # QNaN

=============================================================================
